---------------------------- MODULE Spec2Model ----------------------------
(***************************************************************************)
(* PharmacyGenius Drug Search API (src/main.py).                           *)
(*                                                                         *)
(* The service is a FastAPI application served by one uvicorn event loop.  *)
(* Three routes do work: POST /search/drug (search_drug), GET /search/quick*)
(* (quick_drug_search, which builds a DrugSearchRequest and delegates) and *)
(* GET /health (health_check).  Every handler is an `async def` whose body *)
(* holds no await on the event loop: the provider is called through the    *)
(* synchronous OpenAI client, so a handler occupies the loop's thread from *)
(* the moment it is dispatched until its response is handed back.          *)
(*                                                                         *)
(* Text is a sequence of characters.  A character typed by the user is     *)
(* <<"u", code point>>; character i of a literal of the source is          *)
(* <<literal name, i>>, so the literals keep their true lengths and two    *)
(* characters are equal exactly when they are the same character of the    *)
(* same literal.  Python's Optional[T] is a sequence of length at most 1.  *)
(***************************************************************************)
EXTENDS Integers, Sequences, FiniteSets, TLC

(***************************************************************************)
(* Bounds of the model.                                                    *)
(***************************************************************************)
MaxReqs == 2
MaxClock == 1

(***************************************************************************)
(* Constants of the program.                                               *)
(***************************************************************************)
FieldMinLength == 1
FieldMaxLength == 100
QueryMinLength == 1
QueryMaxLength == 100
PreviewLen == 200
SearchMaxTokens == 2000
HealthMaxTokens == 10
BaseHeadLen == 58
BaseTailLen == 643
DosageLen == 179
SafetyLen == 175
InteractionsLen == 129
ClosingLen == 568
EllipsisLen == 3

Reqs == 1..MaxReqs
Clock == 0..MaxClock

(***************************************************************************)
(* Text.                                                                   *)
(***************************************************************************)
Rep(c, n) == [i \in 1..n |-> c]
Literal(name, n) == [i \in 1..n |-> <<name, i>>]
LetterA == <<"u", 97>>
Blank == <<"u", 32>>
IsWhitespace(c) == c = Blank

\* s[:n] of Python: the first n characters, or all of s when it is shorter.
Take(s, n) == SubSeq(s, 1, IF Len(s) < n THEN Len(s) ELSE n)

\* str.strip(): leading and trailing whitespace removed.
RECURSIVE LStrip(_)
LStrip(s) == IF s # <<>> /\ IsWhitespace(Head(s)) THEN LStrip(Tail(s)) ELSE s
RECURSIVE RStrip(_)
RStrip(s) ==
  IF s # <<>> /\ IsWhitespace(s[Len(s)]) THEN RStrip(SubSeq(s, 1, Len(s) - 1)) ELSE s
Strip(s) == RStrip(LStrip(s))

\* The drug names a client may send: empty, one character, the longest
\* accepted length and one more, of letters and of blanks, and a mixed one.
NameLens == {0, 1, FieldMaxLength, FieldMaxLength + 1}
Names == {Rep(c, n) : c \in {LetterA, Blank}, n \in NameLens} \cup {<<Blank, LetterA>>}
Bodies ==
  [drug_name : Names, include_dosage : BOOLEAN,
   include_side_effects : BOOLEAN, include_interactions : BOOLEAN]
Contents == {"drug information"}
Errors == {"Connection error.", "Rate limit reached"}

(***************************************************************************)
(* The literals of create_drug_search_prompt.                              *)
(***************************************************************************)
BaseHead == Literal("base_head", BaseHeadLen)
BaseTail == Literal("base_tail", BaseTailLen)
DosageSection == Literal("dosage", DosageLen)
SafetySection == Literal("safety", SafetyLen)
InteractionsSection == Literal("interactions", InteractionsLen)
ClosingBlock == Literal("closing", ClosingLen)
Ellipsis == Literal("ellipsis", EllipsisLen)

\* The f-string of base_prompt: the literal around {drug_name}.
Preamble(drug_name) == BaseHead \o drug_name \o BaseTail

\* Mutant: the safety section appended before the dosage section.
create_drug_search_prompt_SafetyFirst(drug_name, include_dosage, include_side_effects, include_interactions) ==
  LET p0 == Preamble(drug_name)
      p1 == IF include_side_effects THEN p0 \o SafetySection ELSE p0
      p2 == IF include_dosage THEN p1 \o DosageSection ELSE p1
      p3 == IF include_interactions THEN p2 \o InteractionsSection ELSE p2
  IN  p3 \o ClosingBlock

create_drug_search_prompt(drug_name, include_dosage, include_side_effects, include_interactions) ==
  LET p0 == Preamble(drug_name)
      p1 == IF include_dosage THEN p0 \o DosageSection ELSE p0
      p2 == IF include_side_effects THEN p1 \o SafetySection ELSE p1
      p3 == IF include_interactions THEN p2 \o InteractionsSection ELSE p2
  IN  p3 \o ClosingBlock

(***************************************************************************)
(* Validation of the drug name: Field(min_length, max_length) of the body  *)
(* model and Query(min_length, max_length) of the quick route.             *)
(***************************************************************************)
\* Mutant: min_length dropped from the Field.
FieldAcceptsNoMin(name) == Len(name) <= FieldMaxLength
\* Mutant: the Query bound off by one.
QueryAcceptsOffByOne(name) == QueryMinLength <= Len(name) /\ Len(name) <= QueryMaxLength + 1

FieldAccepts(name) == FieldMinLength <= Len(name) /\ Len(name) <= FieldMaxLength
QueryAccepts(name) == QueryMinLength <= Len(name) /\ Len(name) <= QueryMaxLength

DrugSearchRequest(name, dosage, side_effects, interactions) ==
  [drug_name |-> name, include_dosage |-> dosage,
   include_side_effects |-> side_effects, include_interactions |-> interactions]

\* Mutant: the quick route asks for the interactions too.
QuickRequestAllSections(name) == DrugSearchRequest(name, TRUE, TRUE, TRUE)

\* The request quick_drug_search builds from its one parameter.
QuickRequest(name) == DrugSearchRequest(name, TRUE, TRUE, FALSE)

(***************************************************************************)
(* What a handler hands back.                                              *)
(***************************************************************************)
NoOutcome == [kind |-> "none"]
ValidationError == [kind |-> "http_error", status_code |-> 422, detail |-> <<"validation error">>]
HTTPException(status, detail) == [kind |-> "http_error", status_code |-> status, detail |-> detail]
NotConfigured ==
  HTTPException(503, <<"OpenAI client not configured. Please set OPENAI_API_KEY environment variable.">>)
SearchFailed(e) == HTTPException(500, <<"Failed to search for drug information: ", e>>)
InternalError == HTTPException(500, <<"Internal Server Error">>)

\* Mutant: the preview without its ellipsis.
SearchQueryNoEllipsis(search_prompt) == Take(search_prompt, PreviewLen)

\* search_prompt[:200] + "..."
SearchQuery(search_prompt) == Take(search_prompt, PreviewLen) \o Ellipsis

APIResponse(success, data, message, error, processing_time) ==
  [kind |-> "api_response", success |-> success, data |-> data, message |-> message,
   error |-> error, processing_time |-> processing_time]

SearchSuccess(req, search_prompt, drug_info_text, start, elapsed) ==
  APIResponse(TRUE,
    <<[drug_name |-> req.drug_name,
       search_query |-> SearchQuery(search_prompt),
       drug_information |-> drug_info_text,
       search_options |-> [include_dosage |-> req.include_dosage,
                           include_side_effects |-> req.include_side_effects,
                           include_interactions |-> req.include_interactions],
       timestamp |-> start]>>,
    <<[text |-> "Successfully retrieved information for '{}'", drug_name |-> req.drug_name]>>,
    <<>>,
    <<elapsed>>)

HealthWarning(t) ==
  [kind |-> "health", status |-> "warning", openai_client |-> "not_configured",
   error |-> <<>>, timestamp |-> <<t>>]
HealthHealthy(t) ==
  [kind |-> "health", status |-> "healthy", openai_client |-> "connected",
   error |-> <<>>, timestamp |-> <<t>>]
HealthError(e, t) ==
  [kind |-> "health", status |-> "error", openai_client |-> "error",
   error |-> <<e>>, timestamp |-> <<t>>]

(***************************************************************************)
(* The call to the provider: chat.completions.create(...).                 *)
(***************************************************************************)
NoReply == [kind |-> "none"]
SearchCall(search_prompt) ==
  [model |-> "gpt-4o-search-preview", system |-> "medical information specialist",
   user |-> search_prompt, max_tokens |-> SearchMaxTokens]
HealthCall ==
  [model |-> "gpt-4o", system |-> "", user |-> Literal("health_probe", 31),
   max_tokens |-> HealthMaxTokens]

VARIABLES
  openai_client,    \* TRUE iff the module-level client was constructed
  now,              \* the wall clock datetime.now() reads
  loop,             \* the request whose handler holds the event loop, 0 if none
  pc,               \* where each request is
  entry,            \* the route of each request
  raw,              \* the unvalidated input of each request, as an Optional
  request,          \* the DrugSearchRequest of each request, as an Optional
  start_time,       \* search_drug's start_time, as an Optional
  search_prompt,    \* search_drug's search_prompt, as an Optional
  processing_time,  \* search_drug's processing_time, as an Optional
  built,            \* how often create_drug_search_prompt ran for the request
  sent,             \* the calls issued to the provider for the request, in order
  reply,            \* what the provider call of the request did
  outcome           \* what the handler handed back

vars ==
  <<openai_client, now, loop, pc, entry, raw, request, start_time, search_prompt,
    processing_time, built, sent, reply, outcome>>

locals == <<entry, raw, request, start_time, search_prompt, processing_time, built, sent, reply, outcome>>

Init ==
  /\ openai_client \in BOOLEAN
  /\ now \in Clock
  /\ loop = 0
  /\ pc = [r \in Reqs |-> "idle"]
  /\ entry = [r \in Reqs |-> "none"]
  /\ raw = [r \in Reqs |-> <<>>]
  /\ request = [r \in Reqs |-> <<>>]
  /\ start_time = [r \in Reqs |-> <<>>]
  /\ search_prompt = [r \in Reqs |-> <<>>]
  /\ processing_time = [r \in Reqs |-> <<>>]
  /\ built = [r \in Reqs |-> 0]
  /\ sent = [r \in Reqs |-> <<>>]
  /\ reply = [r \in Reqs |-> NoReply]
  /\ outcome = [r \in Reqs |-> NoOutcome]

(***************************************************************************)
(* The environment: clients and the wall clock.                            *)
(***************************************************************************)
\* A client sends a request; it waits in the socket until the loop reads it.
Connect(r) ==
  /\ pc[r] = "idle"
  /\ pc' = [pc EXCEPT ![r] = "pending"]
  /\ UNCHANGED <<openai_client, now, loop, locals>>

\* datetime.now() is the wall clock: it advances, and it can be set back.
Tick ==
  /\ now < MaxClock
  /\ now' = now + 1
  /\ UNCHANGED <<openai_client, loop, pc, locals>>

Adjust ==
  /\ now > 0
  /\ now' = now - 1
  /\ UNCHANGED <<openai_client, loop, pc, locals>>

(***************************************************************************)
(* The event loop takes a waiting request when no handler holds it, and    *)
(* FastAPI validates the input before the handler's body runs.             *)
(***************************************************************************)
LoopFree == loop = 0

ReceiveBody(r, body) ==
  /\ pc[r] = "pending"
  /\ LoopFree
  /\ raw' = [raw EXCEPT ![r] = <<body>>]
  /\ loop' = r
  /\ entry' = [entry EXCEPT ![r] = "detailed"]
  /\ pc' = [pc EXCEPT ![r] = "validate"]
  /\ UNCHANGED <<openai_client, now, request, start_time, search_prompt,
                 processing_time, built, sent, reply, outcome>>

ReceiveDetailed(r) == \E body \in Bodies : ReceiveBody(r, body)

ReceiveQuick(r) ==
  /\ pc[r] = "pending"
  /\ LoopFree
  /\ \E name \in Names : raw' = [raw EXCEPT ![r] = <<[drug_name |-> name]>>]
  /\ loop' = r
  /\ entry' = [entry EXCEPT ![r] = "quick"]
  /\ pc' = [pc EXCEPT ![r] = "validate"]
  /\ UNCHANGED <<openai_client, now, request, start_time, search_prompt,
                 processing_time, built, sent, reply, outcome>>

ReceiveHealth(r) ==
  /\ pc[r] = "pending"
  /\ LoopFree
  /\ loop' = r
  /\ entry' = [entry EXCEPT ![r] = "health"]
  /\ pc' = [pc EXCEPT ![r] = "health_check"]
  /\ UNCHANGED <<openai_client, now, raw, request, start_time, search_prompt,
                 processing_time, built, sent, reply, outcome>>

\* POST /search/drug: the body is parsed into a DrugSearchRequest.
ValidateBody(r) ==
  /\ pc[r] = "validate"
  /\ entry[r] = "detailed"
  /\ LET body == raw[r][1] IN
       IF FieldAccepts(body.drug_name)
       THEN /\ request' = [request EXCEPT ![r] =
                 <<DrugSearchRequest(body.drug_name, body.include_dosage,
                                     body.include_side_effects, body.include_interactions)>>]
            /\ pc' = [pc EXCEPT ![r] = "search_drug"]
            /\ UNCHANGED outcome
       ELSE /\ outcome' = [outcome EXCEPT ![r] = ValidationError]
            /\ pc' = [pc EXCEPT ![r] = "respond"]
            /\ UNCHANGED request
  /\ UNCHANGED <<openai_client, now, loop, entry, raw, start_time, search_prompt,
                 processing_time, built, sent, reply>>

\* GET /search/quick: the query parameter is checked.
ValidateQuery(r) ==
  /\ pc[r] = "validate"
  /\ entry[r] = "quick"
  /\ IF QueryAccepts(raw[r][1].drug_name)
     THEN /\ pc' = [pc EXCEPT ![r] = "quick_drug_search"]
          /\ UNCHANGED outcome
     ELSE /\ outcome' = [outcome EXCEPT ![r] = ValidationError]
          /\ pc' = [pc EXCEPT ![r] = "respond"]
  /\ UNCHANGED <<openai_client, now, loop, entry, raw, request, start_time,
                 search_prompt, processing_time, built, sent, reply>>

(***************************************************************************)
(* quick_drug_search: build the request, then search_drug(request).        *)
(***************************************************************************)
quick_drug_search(r) ==
  /\ pc[r] = "quick_drug_search"
  /\ LET req == QuickRequest(raw[r][1].drug_name) IN
       IF FieldAccepts(req.drug_name)
       THEN /\ request' = [request EXCEPT ![r] = <<req>>]
            /\ pc' = [pc EXCEPT ![r] = "search_drug"]
            /\ UNCHANGED outcome
       ELSE /\ outcome' = [outcome EXCEPT ![r] = InternalError]
            /\ pc' = [pc EXCEPT ![r] = "respond"]
            /\ UNCHANGED request
  /\ UNCHANGED <<openai_client, now, loop, entry, raw, start_time, search_prompt,
                 processing_time, built, sent, reply>>

(***************************************************************************)
(* search_drug.                                                            *)
(***************************************************************************)
\* Mutant: the start time taken before the configuration check.
CheckClientAfterTiming(r) ==
  /\ pc[r] = "search_drug"
  /\ start_time' = [start_time EXCEPT ![r] = <<now>>]
  /\ IF ~openai_client
     THEN /\ outcome' = [outcome EXCEPT ![r] = NotConfigured]
          /\ pc' = [pc EXCEPT ![r] = "respond"]
     ELSE /\ pc' = [pc EXCEPT ![r] = "build"]
          /\ UNCHANGED outcome
  /\ UNCHANGED <<openai_client, now, loop, entry, raw, request, search_prompt,
                 processing_time, built, sent, reply>>

\* if not openai_client: raise HTTPException(503); start_time = datetime.now()
CheckClient(r) ==
  /\ pc[r] = "search_drug"
  /\ IF ~openai_client
     THEN /\ outcome' = [outcome EXCEPT ![r] = NotConfigured]
          /\ pc' = [pc EXCEPT ![r] = "respond"]
          /\ UNCHANGED start_time
     ELSE /\ start_time' = [start_time EXCEPT ![r] = <<now>>]
          /\ pc' = [pc EXCEPT ![r] = "build"]
          /\ UNCHANGED outcome
  /\ UNCHANGED <<openai_client, now, loop, entry, raw, request, search_prompt,
                 processing_time, built, sent, reply>>

\* search_prompt = create_drug_search_prompt(...)
BuildPrompt(r) ==
  /\ pc[r] = "build"
  /\ LET req == request[r][1] IN
       search_prompt' = [search_prompt EXCEPT ![r] =
         <<create_drug_search_prompt(req.drug_name, req.include_dosage,
                                     req.include_side_effects, req.include_interactions)>>]
  /\ built' = [built EXCEPT ![r] = @ + 1]
  /\ pc' = [pc EXCEPT ![r] = "call"]
  /\ UNCHANGED <<openai_client, now, loop, entry, raw, request, start_time,
                 processing_time, sent, reply, outcome>>

\* openai_client.chat.completions.create(...): the call is issued and the
\* handler, and with it the loop's thread, waits for the provider.
CallProvider(r) ==
  /\ pc[r] = "call"
  /\ sent' = [sent EXCEPT ![r] = Append(@, SearchCall(search_prompt[r][1]))]
  /\ pc' = [pc EXCEPT ![r] = "waiting"]
  /\ UNCHANGED <<openai_client, now, loop, entry, raw, request, start_time,
                 search_prompt, processing_time, built, reply, outcome>>

\* The call returns: the success branch of the try block.
ProviderReturns(r) ==
  /\ pc[r] = "waiting"
  /\ \E content \in Contents :
       LET elapsed == now - start_time[r][1] IN
         /\ reply' = [reply EXCEPT ![r] = [kind |-> "returned", content |-> content]]
         /\ processing_time' = [processing_time EXCEPT ![r] = <<elapsed>>]
         /\ outcome' = [outcome EXCEPT ![r] =
              SearchSuccess(request[r][1], search_prompt[r][1], content,
                            start_time[r][1], elapsed)]
  /\ pc' = [pc EXCEPT ![r] = "respond"]
  /\ UNCHANGED <<openai_client, now, loop, entry, raw, request, start_time,
                 search_prompt, built, sent>>

\* Mutant: a failed call is tried once more before the failure is reported.
ProviderRaisesRetry(r) ==
  /\ pc[r] = "waiting"
  /\ \E e \in Errors :
       IF Len(sent[r]) < 2
       THEN /\ sent' = [sent EXCEPT ![r] = Append(@, SearchCall(search_prompt[r][1]))]
            /\ UNCHANGED <<reply, outcome, processing_time, pc>>
       ELSE /\ reply' = [reply EXCEPT ![r] = [kind |-> "raised", error |-> e]]
            /\ outcome' = [outcome EXCEPT ![r] = SearchFailed(e)]
            /\ processing_time' = [processing_time EXCEPT ![r] = <<now - start_time[r][1]>>]
            /\ pc' = [pc EXCEPT ![r] = "respond"]
            /\ UNCHANGED sent
  /\ UNCHANGED <<openai_client, now, loop, entry, raw, request, start_time,
                 search_prompt, built>>

\* The call raises: the except branch.
ProviderRaises(r) ==
  /\ pc[r] = "waiting"
  /\ \E e \in Errors :
       /\ reply' = [reply EXCEPT ![r] = [kind |-> "raised", error |-> e]]
       /\ outcome' = [outcome EXCEPT ![r] = SearchFailed(e)]
  /\ processing_time' = [processing_time EXCEPT ![r] = <<now - start_time[r][1]>>]
  /\ pc' = [pc EXCEPT ![r] = "respond"]
  /\ UNCHANGED <<openai_client, now, loop, entry, raw, request, start_time,
                 search_prompt, built, sent>>

(***************************************************************************)
(* health_check.                                                           *)
(***************************************************************************)
HealthCheckClient(r) ==
  /\ pc[r] = "health_check"
  /\ IF ~openai_client
     THEN /\ outcome' = [outcome EXCEPT ![r] = HealthWarning(now)]
          /\ pc' = [pc EXCEPT ![r] = "respond"]
          /\ UNCHANGED sent
     ELSE /\ sent' = [sent EXCEPT ![r] = Append(@, HealthCall)]
          /\ pc' = [pc EXCEPT ![r] = "health_waiting"]
          /\ UNCHANGED outcome
  /\ UNCHANGED <<openai_client, now, loop, entry, raw, request, start_time,
                 search_prompt, processing_time, built, reply>>

HealthReturns(r) ==
  /\ pc[r] = "health_waiting"
  /\ \E content \in Contents :
       reply' = [reply EXCEPT ![r] = [kind |-> "returned", content |-> content]]
  /\ outcome' = [outcome EXCEPT ![r] = HealthHealthy(now)]
  /\ pc' = [pc EXCEPT ![r] = "respond"]
  /\ UNCHANGED <<openai_client, now, loop, entry, raw, request, start_time,
                 search_prompt, processing_time, built, sent>>

\* Mutant: the failure of the probe is not caught.
HealthRaisesUncaught(r) ==
  /\ pc[r] = "health_waiting"
  /\ \E e \in Errors :
       reply' = [reply EXCEPT ![r] = [kind |-> "raised", error |-> e]]
  /\ outcome' = [outcome EXCEPT ![r] = InternalError]
  /\ pc' = [pc EXCEPT ![r] = "respond"]
  /\ UNCHANGED <<openai_client, now, loop, entry, raw, request, start_time,
                 search_prompt, processing_time, built, sent>>

HealthRaises(r) ==
  /\ pc[r] = "health_waiting"
  /\ \E e \in Errors :
       /\ reply' = [reply EXCEPT ![r] = [kind |-> "raised", error |-> e]]
       /\ outcome' = [outcome EXCEPT ![r] = HealthError(e, now)]
  /\ pc' = [pc EXCEPT ![r] = "respond"]
  /\ UNCHANGED <<openai_client, now, loop, entry, raw, request, start_time,
                 search_prompt, processing_time, built, sent>>

(***************************************************************************)
(* The handler is over: the response goes to the client, the handler's     *)
(* locals are gone and the loop is free for the next request.              *)
(***************************************************************************)
Respond(r) ==
  /\ pc[r] = "respond"
  /\ loop' = 0
  /\ pc' = [pc EXCEPT ![r] = "idle"]
  /\ entry' = [entry EXCEPT ![r] = "none"]
  /\ raw' = [raw EXCEPT ![r] = <<>>]
  /\ request' = [request EXCEPT ![r] = <<>>]
  /\ start_time' = [start_time EXCEPT ![r] = <<>>]
  /\ search_prompt' = [search_prompt EXCEPT ![r] = <<>>]
  /\ processing_time' = [processing_time EXCEPT ![r] = <<>>]
  /\ built' = [built EXCEPT ![r] = 0]
  /\ sent' = [sent EXCEPT ![r] = <<>>]
  /\ reply' = [reply EXCEPT ![r] = NoReply]
  /\ outcome' = [outcome EXCEPT ![r] = NoOutcome]
  /\ UNCHANGED <<openai_client, now>>

Next ==
  \/ Tick
  \/ Adjust
  \/ \E r \in Reqs :
       \/ Connect(r)
       \/ ReceiveDetailed(r)
       \/ ReceiveQuick(r)
       \/ ReceiveHealth(r)
       \/ ValidateBody(r)
       \/ ValidateQuery(r)
       \/ quick_drug_search(r)
       \/ CheckClient(r)
       \/ BuildPrompt(r)
       \/ CallProvider(r)
       \/ ProviderReturns(r)
       \/ ProviderRaises(r)
       \/ HealthCheckClient(r)
       \/ HealthReturns(r)
       \/ HealthRaises(r)
       \/ Respond(r)

Spec == Init /\ [][Next]_vars

(***************************************************************************)
(* create_drug_search_prompt called directly, on any string and any flags: *)
(* the function is total and does no I/O.                                  *)
(***************************************************************************)
InitBuilder ==
  /\ openai_client \in BOOLEAN
  /\ now \in Clock
  /\ loop = 1
  /\ pc = [r \in Reqs |-> IF r = 1 THEN "build" ELSE "idle"]
  /\ entry = [r \in Reqs |-> IF r = 1 THEN "direct" ELSE "none"]
  /\ raw = [r \in Reqs |-> <<>>]
  /\ \E args \in Bodies : request = [r \in Reqs |-> IF r = 1 THEN <<args>> ELSE <<>>]
  /\ start_time = [r \in Reqs |-> <<>>]
  /\ search_prompt = [r \in Reqs |-> <<>>]
  /\ processing_time = [r \in Reqs |-> <<>>]
  /\ built = [r \in Reqs |-> 0]
  /\ sent = [r \in Reqs |-> <<>>]
  /\ reply = [r \in Reqs |-> NoReply]
  /\ outcome = [r \in Reqs |-> NoOutcome]

NextBuilder == BuildPrompt(1)

SpecBuilder == InitBuilder /\ [][NextBuilder]_vars

(***************************************************************************)
(* One client sends GET /search/quick with a name, another sends           *)
(* POST /search/drug with that name and the flags (true, true, false).     *)
(* The record of a finished handler is kept, so the two can be compared.   *)
(***************************************************************************)
Return(r) ==
  /\ pc[r] = "respond"
  /\ loop' = 0
  /\ pc' = [pc EXCEPT ![r] = "responded"]
  /\ UNCHANGED <<openai_client, now, locals>>

ReceiveTwin(r, q) ==
  /\ raw[q] # <<>>
  /\ entry[q] = "quick"
  /\ ReceiveBody(r, [drug_name |-> raw[q][1].drug_name, include_dosage |-> TRUE,
                     include_side_effects |-> TRUE, include_interactions |-> FALSE])

NextPair ==
  \/ Tick
  \/ Adjust
  \/ ReceiveQuick(1)
  \/ ReceiveTwin(2, 1)
  \/ \E r \in {1, 2} :
       \/ Connect(r)
       \/ ValidateBody(r)
       \/ ValidateQuery(r)
       \/ quick_drug_search(r)
       \/ CheckClient(r)
       \/ BuildPrompt(r)
       \/ CallProvider(r)
       \/ ProviderReturns(r)
       \/ ProviderRaises(r)
       \/ Return(r)

SpecPair == Init /\ [][NextPair]_vars

(***************************************************************************)
(* Reading a prompt back: where its runs of characters of one origin       *)
(* start, and the origins in the order they appear.                        *)
(***************************************************************************)
Origin(c) == c[1]
RunStarts(p) == {i \in 1..Len(p) : i = 1 \/ Origin(p[i]) # Origin(p[i - 1])}
RunEnd(p, b) ==
  LET later == {x \in RunStarts(p) : x > b}
  IN  IF later = {} THEN Len(p) ELSE (CHOOSE x \in later : \A y \in later : x <= y) - 1
NthStart(p, k) == CHOOSE b \in RunStarts(p) : Cardinality({x \in RunStarts(p) : x < b}) = k - 1
Origins(p) == [k \in 1..Cardinality(RunStarts(p)) |-> Origin(p[NthStart(p, k)])]
LiteralLen(o) ==
  CASE o = "base_head" -> BaseHeadLen
    [] o = "base_tail" -> BaseTailLen
    [] o = "dosage" -> DosageLen
    [] o = "safety" -> SafetyLen
    [] o = "interactions" -> InteractionsLen
    [] o = "closing" -> ClosingLen
\* A run is a whole literal of the source, or the drug name.
WholeRun(p, b, name) ==
  LET e == RunEnd(p, b) IN
    IF Origin(p[b]) = "u"
    THEN SubSeq(p, b, e) = name
    ELSE /\ e - b + 1 = LiteralLen(Origin(p[b]))
         /\ \A i \in b..e : p[i][2] = i - b + 1
ExpectedOrigins(req) ==
  <<"base_head">> \o (IF req.drug_name = <<>> THEN <<>> ELSE <<"u">>) \o <<"base_tail">>
    \o (IF req.include_dosage THEN <<"dosage">> ELSE <<>>)
    \o (IF req.include_side_effects THEN <<"safety">> ELSE <<>>)
    \o (IF req.include_interactions THEN <<"interactions">> ELSE <<>>)
    \o <<"closing">>

Searching(r) == entry[r] \in {"detailed", "quick"}
Succeeded(r) == outcome[r].kind = "api_response" /\ outcome[r].success
HttpError(r, status) == outcome[r].kind = "http_error" /\ outcome[r].status_code = status
Contains(detail, e) == \E i \in 1..Len(detail) : detail[i] = e

(***************************************************************************)
(* C1.  Every prompt create_drug_search_prompt builds, for any drug name   *)
(* and any of the 8 flag combinations, is the preamble naming the drug     *)
(* (the literal before the name, the name, the literal after it), then the *)
(* dosage section iff include_dosage, the safety section iff               *)
(* include_side_effects, the interactions section iff                      *)
(* include_interactions, then the closing block, each whole and once, in   *)
(* that order.                                                             *)
(***************************************************************************)
C1_PromptSections ==
  \A r \in Reqs :
    search_prompt[r] # <<>> =>
      LET p == search_prompt[r][1]
          req == request[r][1]
      IN  /\ Origins(p) = ExpectedOrigins(req)
          /\ \A b \in RunStarts(p) : WholeRun(p, b, req.drug_name)

C1_Witness ==
  /\ search_prompt[1] # <<>>
  /\ request[1][1].drug_name = <<>>
  /\ ~request[1][1].include_dosage
  /\ request[1][1].include_side_effects
  /\ request[1][1].include_interactions

(***************************************************************************)
(* C2.  As claimed: when the provider call of search_drug raises E, the    *)
(* caller gets an APIResponse with success = false, an error field that    *)
(* holds E, and a processing_time that is set and not negative.            *)
(***************************************************************************)
C2_FailureIsAnAPIResponse ==
  \A r \in Reqs :
    (Searching(r) /\ pc[r] = "respond" /\ reply[r].kind = "raised") =>
      /\ outcome[r].kind = "api_response"
      /\ ~outcome[r].success
      /\ outcome[r].error = <<reply[r].error>>
      /\ outcome[r].processing_time # <<>>
      /\ outcome[r].processing_time[1] >= 0

(***************************************************************************)
(* C3.  With no client configured no request issues a provider call,       *)
(* records a start time or builds a prompt, and every request that reaches *)
(* search_drug (directly or through quick_drug_search) ends with the 503   *)
(* outcome.                                                                *)
(***************************************************************************)
C3_NotConfiguredFailsFast ==
  \A r \in Reqs :
    ~openai_client =>
      /\ sent[r] = <<>>
      /\ start_time[r] = <<>>
      /\ built[r] = 0
      /\ search_prompt[r] = <<>>
      /\ (Searching(r) /\ request[r] # <<>> /\ pc[r] # "search_drug") =>
           (pc[r] = "respond" /\ HttpError(r, 503))

C3_Witness ==
  /\ ~openai_client
  /\ entry[1] = "quick"
  /\ request[1] # <<>>
  /\ pc[1] = "respond"
  /\ HttpError(1, 503)

(***************************************************************************)
(* C4.  The quick request for a name and the detailed request for that     *)
(* name with flags (true, true, false) end alike: when both are over and   *)
(* the provider did the same for both, the outcomes are of the same kind   *)
(* and status, the same calls went to the provider, and a successful       *)
(* result echoes the same name, flags (true, true, false) and preview; the *)
(* whole outcome is the same when the clock readings were the same.        *)
(***************************************************************************)
C4_QuickIsSugar ==
  (pc[1] = "responded" /\ pc[2] = "responded" /\ reply[1] = reply[2]) =>
    /\ outcome[1].kind = outcome[2].kind
    /\ request[1] = request[2]
    /\ sent[1] = sent[2]
    /\ built[1] = built[2]
    /\ outcome[1].kind = "http_error" => outcome[1] = outcome[2]
    /\ outcome[1].kind = "api_response" =>
         /\ outcome[1].success = outcome[2].success
         /\ outcome[1].message = outcome[2].message
         /\ outcome[1].error = outcome[2].error
         /\ outcome[1].data[1].drug_name = outcome[2].data[1].drug_name
         /\ outcome[1].data[1].search_query = outcome[2].data[1].search_query
         /\ outcome[1].data[1].drug_information = outcome[2].data[1].drug_information
         /\ outcome[1].data[1].search_options = outcome[2].data[1].search_options
         /\ outcome[1].data[1].search_options =
              [include_dosage |-> TRUE, include_side_effects |-> TRUE,
               include_interactions |-> FALSE]
    /\ (start_time[1] = start_time[2] /\ processing_time[1] = processing_time[2]) =>
         outcome[1] = outcome[2]

C4_Witness ==
  /\ pc[1] = "responded"
  /\ pc[2] = "responded"
  /\ reply[1] = reply[2]
  /\ Succeeded(1)
  /\ Succeeded(2)
  /\ entry[1] = "quick"
  /\ entry[2] = "detailed"

(***************************************************************************)
(* C5.  As claimed: every drug name accepted into a DrugSearchRequest is   *)
(* non-empty after trimming whitespace.                                    *)
(***************************************************************************)
C5_AcceptedNameNonBlank ==
  \A r \in Reqs : request[r] # <<>> => Strip(request[r][1].drug_name) # <<>>

(***************************************************************************)
(* C5, amended.  Every drug name accepted into a DrugSearchRequest, and    *)
(* every name that reaches the Prompt Builder or the provider, has between *)
(* 1 and 100 characters as sent, untrimmed; a name of 1 to 100 characters  *)
(* that is only whitespace is accepted on both entries.                    *)
(***************************************************************************)
C5_AcceptedNameLength ==
  \A r \in Reqs :
    /\ (Searching(r) /\ request[r] # <<>>) =>
         /\ request[r][1].drug_name = raw[r][1].drug_name
         /\ Len(request[r][1].drug_name) >= 1
         /\ Len(request[r][1].drug_name) <= 100
    /\ (Searching(r) /\ (built[r] > 0 \/ sent[r] # <<>>)) => request[r] # <<>>
    /\ (Searching(r) /\ pc[r] \notin {"validate", "quick_drug_search"}
          /\ Len(raw[r][1].drug_name) \in 1..100
          /\ Strip(raw[r][1].drug_name) = <<>>) =>
         (request[r] # <<>> /\ outcome[r] # ValidationError)

C5_Witness ==
  \E r \in Reqs :
    /\ entry[r] = "quick"
    /\ request[r] # <<>>
    /\ Len(request[r][1].drug_name) = 100
    /\ Strip(request[r][1].drug_name) = <<>>
    /\ sent[r] # <<>>

(***************************************************************************)
(* C6.  A search request issues at most one provider call, and one that    *)
(* passed the configuration check and is over issued exactly one: a        *)
(* success result when the call returned, the failure outcome when it      *)
(* raised.                                                                 *)
(***************************************************************************)
C6_ExactlyOneCall ==
  \A r \in Reqs :
    Searching(r) =>
      /\ Len(sent[r]) <= 1
      /\ pc[r] = "waiting" => Len(sent[r]) = 1
      /\ (pc[r] = "respond" /\ start_time[r] # <<>>) =>
           /\ Len(sent[r]) = 1
           /\ reply[r].kind \in {"returned", "raised"}
           /\ reply[r].kind = "returned" => Succeeded(r)
           /\ reply[r].kind = "raised" => HttpError(r, 500)

C6_Witness ==
  /\ Searching(1)
  /\ pc[1] = "respond"
  /\ reply[1].kind = "raised"
  /\ Len(sent[1]) = 1

(***************************************************************************)
(* C7.  As claimed: while one request waits on its provider call, a        *)
(* request that has arrived can be taken up by the event loop.             *)
(***************************************************************************)
C7_ProviderCallDoesNotBlock ==
  \A r1, r2 \in Reqs :
    (r1 # r2 /\ pc[r1] \in {"waiting", "health_waiting"} /\ pc[r2] = "pending") =>
      ENABLED (ReceiveDetailed(r2) \/ ReceiveQuick(r2) \/ ReceiveHealth(r2))

(***************************************************************************)
(* C8.  In a successful result the preview is 203 characters: the first    *)
(* 200 of the prompt that went to the provider, then "..."; the result     *)
(* echoes the drug name and the flags of the request as they were sent.    *)
(***************************************************************************)
C8_PreviewAndEcho ==
  \A r \in Reqs :
    (Searching(r) /\ pc[r] = "respond" /\ Succeeded(r)) =>
      LET data == outcome[r].data[1]
          q == data.search_query
          p == sent[r][1].user
      IN  /\ Len(q) = 203
          /\ \A i \in 1..200 : q[i] = p[i]
          /\ \A j \in 1..3 : q[200 + j] = <<"ellipsis", j>>
          /\ data.drug_name = raw[r][1].drug_name
          /\ data.search_options.include_dosage = request[r][1].include_dosage
          /\ data.search_options.include_side_effects = request[r][1].include_side_effects
          /\ data.search_options.include_interactions = request[r][1].include_interactions
          /\ entry[r] = "detailed" =>
               /\ data.search_options.include_dosage = raw[r][1].include_dosage
               /\ data.search_options.include_side_effects = raw[r][1].include_side_effects
               /\ data.search_options.include_interactions = raw[r][1].include_interactions

C8_Witness ==
  \E r \in Reqs :
    /\ entry[r] = "detailed"
    /\ pc[r] = "respond"
    /\ Succeeded(r)
    /\ Len(raw[r][1].drug_name) = 100
    /\ ~raw[r][1].include_dosage
    /\ raw[r][1].include_interactions

(***************************************************************************)
(* C9.  health_check hands back one of three states, never an error        *)
(* response: "warning" exactly when no client is configured, and then      *)
(* without a provider call; "healthy" exactly when the provider call       *)
(* returned; "error", carrying the failure text, exactly when it raised.   *)
(* Each of the three carries a timestamp.                                  *)
(***************************************************************************)
C9_HealthThreeStates ==
  \A r \in Reqs :
    entry[r] = "health" =>
      /\ outcome[r].kind \in {"none", "health"}
      /\ pc[r] = "respond" =>
           /\ outcome[r].kind = "health"
           /\ outcome[r].status \in {"warning", "healthy", "error"}
           /\ outcome[r].timestamp # <<>>
           /\ outcome[r].status = "warning" <=> ~openai_client
           /\ outcome[r].status = "warning" => sent[r] = <<>>
           /\ outcome[r].status = "healthy" <=> reply[r].kind = "returned"
           /\ outcome[r].status = "error" <=> reply[r].kind = "raised"
           /\ outcome[r].status = "error" => outcome[r].error = <<reply[r].error>>
           /\ outcome[r].status # "error" => outcome[r].error = <<>>

C9_Witness ==
  \E r \in Reqs :
    /\ entry[r] = "health"
    /\ pc[r] = "respond"
    /\ outcome[r].kind = "health"
    /\ outcome[r].status = "error"

(***************************************************************************)
(* C10.  On both search entries a drug name that is empty or longer than   *)
(* 100 characters is rejected with the client error 422, with no request   *)
(* built, no prompt built and no provider call; a name of 1 to 100         *)
(* characters is not rejected.                                             *)
(***************************************************************************)
C10_LengthValidation ==
  \A r \in Reqs :
    (Searching(r) /\ pc[r] # "validate") =>
      LET n == Len(raw[r][1].drug_name) IN
        /\ (n = 0 \/ n > 100) =>
             /\ pc[r] = "respond"
             /\ HttpError(r, 422)
             /\ request[r] = <<>>
             /\ built[r] = 0
             /\ search_prompt[r] = <<>>
             /\ sent[r] = <<>>
        /\ (n >= 1 /\ n <= 100) =>
             /\ ~HttpError(r, 422)
             /\ pc[r] # "quick_drug_search" => request[r] # <<>>

C10_Witness ==
  \E r \in Reqs :
    /\ entry[r] = "quick"
    /\ Len(raw[r][1].drug_name) = 101
    /\ pc[r] = "respond"
    /\ HttpError(r, 422)

=============================================================================
